---- MODULE Spec2Model ----
(***************************************************************************)
(* Model of the FastAPI service in src/main.py: three request handlers     *)
(* (GET /health, POST /chat, GET /models) over one upstream provider.      *)
(*                                                                         *)
(* The handlers are `async def` functions without any `await`: the event   *)
(* loop runs each of them from its first line to its return or raise       *)
(* before it starts another, so each handler is one atomic action and      *)
(* concurrent requests are all the orders in which the actions can fire.   *)
(*                                                                         *)
(* State kept about the most recent request (endpoint, request, sent,      *)
(* reply, attempts, response) is overwritten by every handler, so an       *)
(* invariant over it speaks about every request of every run.              *)
(*                                                                         *)
(* Conventions: Python None is the string "None" for string-valued fields; *)
(* an optional number (max_tokens, temperature) is <<>> when it is None    *)
(* and <<v>> when it is v.  Temperatures are in tenths (7 is 0.7).         *)
(***************************************************************************)
EXTENDS Integers, Sequences, FiniteSets, TLC

VARIABLES
    GROQ_API_KEY,    \* main.py:15, read once at import
    MAX_TOKENS,      \* main.py:17
    TEMPERATURE,     \* main.py:18, in tenths
    groq_client,     \* main.py:32, 0 is None, n > 0 is the n-th Groq object built
    clientsCreated,  \* number of Groq(api_key=...) constructions so far
    nHealth, nChat, nModels,  \* inbound requests handled, per endpoint
    chatCalls,       \* HTTP requests sent to the provider's completion endpoint
    modelsCalls,     \* HTTP requests sent to the provider's model-listing endpoint
    endpoint,        \* endpoint of the most recent request
    request,         \* <<ChatRequest>> of the most recent request, <<>> if it has none
    sent,            \* <<payload>> handed to the upstream by the most recent request, <<>> if none
    reply,           \* <<final upstream reply>> of the most recent request, <<>> if none
    attempts,        \* HTTP requests the most recent request caused
    response         \* [status, body] returned for the most recent request

vars == <<GROQ_API_KEY, MAX_TOKENS, TEMPERATURE, groq_client, clientsCreated,
          nHealth, nChat, nModels, chatCalls, modelsCalls,
          endpoint, request, sent, reply, attempts, response>>

config == <<GROQ_API_KEY, MAX_TOKENS, TEMPERATURE>>

----------------------------------------------------------------------------
(* Bounds *)

MaxRequests == 3     \* inbound requests per run
MaxModels == 2       \* model descriptors in one upstream listing

----------------------------------------------------------------------------
(* Configuration *)

GROQ_MODEL == "openai/gpt-oss-120b"

None == "None"

\* The environment the module is imported in (main.py:15-18): the key unset
\* or set, and the two defaults either left at "1024" and "0.7" or both
\* overridden.
Keys == {"", "gsk_key"}
Defaults == {[MAX_TOKENS |-> 1024, TEMPERATURE |-> 7], [MAX_TOKENS |-> 512, TEMPERATURE |-> 2]}

----------------------------------------------------------------------------
(* Python helpers *)

\* PyOr with the defaults written into the handler instead of read from the
\* configuration.
PyOrHardCoded(value, default) ==
    IF value = <<>> THEN 1024
    ELSE IF value[1] = 0 THEN 1024
    ELSE value[1]

\* `value or default` (main.py:82-83): the default replaces every falsy value,
\* None and zero alike.
PyOr(value, default) ==
    IF value = <<>> THEN default
    ELSE IF value[1] = 0 THEN default
    ELSE value[1]

\* dict.get(key) (main.py:137-141, 147): None when the key is absent.
DictGet(d, key) == IF key \in DOMAIN d THEN d[key] ELSE None

\* HTTPException(status_code, detail) raised to the framework: the status and
\* a body that holds nothing but the detail.
HTTPException(status_code, detail) ==
    [status |-> status_code, body |-> [detail |-> detail]]

\* str(e) of an HTTPException: "<status_code>: <detail>".  A text is the
\* sequence of the pieces it is concatenated from.
HTTPExceptionStr(status_code, detail) == <<ToString(status_code), ": ", detail>>

----------------------------------------------------------------------------
(* The lazily built upstream client, main.py:32-40 *)

\* get_groq_client without the `if not GROQ_API_KEY` check.
get_groq_client_unchecked(client, created) ==
    IF client = 0
    THEN [raised |-> FALSE, client |-> created + 1, created |-> created + 1]
    ELSE [raised |-> FALSE, client |-> client, created |-> created]

\* get_groq_client without the `if groq_client is None` check.
get_groq_client_per_request(client, created) ==
    IF GROQ_API_KEY = ""
    THEN [raised |-> TRUE, client |-> client, created |-> created]
    ELSE [raised |-> FALSE, client |-> created + 1, created |-> created + 1]

\* get_groq_client(): the global is assigned only when it is None and the key
\* is non-empty; an empty key raises before any assignment.
get_groq_client(client, created) ==
    IF client = 0
    THEN IF GROQ_API_KEY = ""
         THEN [raised |-> TRUE, client |-> client, created |-> created]
         ELSE [raised |-> FALSE, client |-> created + 1, created |-> created + 1]
    ELSE [raised |-> FALSE, client |-> client, created |-> created]

----------------------------------------------------------------------------
(* POST /chat, main.py:69-111 *)

\* ChatRequest (main.py:43-46): message is required, the two numbers default
\* to None.
Messages == {"hi"}
MaxTokensInputs == {<<>>, <<0>>, <<256>>}
TemperatureInputs == {<<>>, <<0>>, <<10>>}
ChatRequest ==
    [message : Messages, max_tokens : MaxTokensInputs, temperature : TemperatureInputs]

\* What one HTTP request to the completion endpoint can come back with.  A
\* "2xx" reply carries a completion whose choices list may be empty, whose
\* message content may be null and whose usage may be null.
ChatFailureKinds == {"conn_error", "timeout", "status_4xx", "status_429", "status_5xx"}
ChatReplies ==
    [kind : {"2xx"}, has_choice : BOOLEAN, content : {None, "hello"}, usage : {<<>>, <<42>>}]
    \cup [kind : ChatFailureKinds, has_choice : {FALSE}, content : {None}, usage : {<<>>}]

\* Groq(api_key=GROQ_API_KEY) at main.py:39 sets no max_retries, so the client
\* keeps the SDK's default: a connection error, a timeout and a 408, 409, 429
\* or 5xx status are sent again, up to this many times.
DEFAULT_MAX_RETRIES == 2

Retryable(r) == r.kind \in {"conn_error", "timeout", "status_429", "status_5xx"}

\* client.chat.completions.create(...) at main.py:85-91: <<n, r>> is n HTTP
\* requests of which the first n - 1 failed in a retryable way and the last
\* came back with r; a retryable r ends the call only once the retries are
\* used up.
CreateOutcomes ==
    {o \in (1..(DEFAULT_MAX_RETRIES + 1)) \X ChatReplies :
        Retryable(o[2]) => o[1] = DEFAULT_MAX_RETRIES + 1}

\* str(e) of what create() raises, or of what main.py:94-99 raises on a 2xx
\* reply: choices[0] (94), usage.total_tokens (98), ai_response[:200] (99).
\* <<>> when nothing is raised.
ChatErrorText(r) ==
    CASE r.kind = "conn_error" -> <<"Connection error.">>
      [] r.kind = "timeout" -> <<"Request timed out.">>
      [] r.kind = "status_4xx" -> <<"Error code: 401">>
      [] r.kind = "status_429" -> <<"Error code: 429">>
      [] r.kind = "status_5xx" -> <<"Error code: 503">>
      [] r.kind = "2xx" /\ ~r.has_choice -> <<"list index out of range">>
      [] r.kind = "2xx" /\ r.has_choice /\ r.usage = <<>> ->
             <<"'NoneType' object has no attribute 'total_tokens'">>
      [] r.kind = "2xx" /\ r.has_choice /\ r.usage # <<>> /\ r.content = None ->
             <<"'NoneType' object is not subscriptable">>
      [] OTHER -> <<>>

\* ChatError answering 502 instead of 500.
ChatErrorBadGateway(text) ==
    [status |-> 502, body |-> [detail |-> <<"AI response failed: ">> \o text]]

\* except Exception (main.py:109-111): every failure, the HTTPException of
\* get_groq_client included, becomes a 500 whose detail embeds str(e).
ChatError(text) == HTTPException(500, <<"AI response failed: ">> \o text)

\* ChatResponse (main.py:101-107); the clock readings are symbolic.
ChatResponse(r) ==
    [status |-> 200,
     body |-> [response |-> r.content, model |-> GROQ_MODEL,
               tokens_used |-> r.usage[1], response_time |-> "elapsed",
               timestamp |-> "now"]]

\* The keyword arguments of create(), main.py:82-91.
ChatPayload(req) ==
    [model |-> GROQ_MODEL,
     messages |-> <<[role |-> "user", content |-> req.message]>>,
     max_tokens |-> PyOr(req.max_tokens, MAX_TOKENS),
     temperature |-> PyOr(req.temperature, TEMPERATURE),
     stream |-> FALSE]

chat_completion ==
    /\ nHealth + nChat + nModels < MaxRequests
    /\ \E req \in ChatRequest, o \in CreateOutcomes :
        LET g == get_groq_client(groq_client, clientsCreated)
            n == o[1]
            r == o[2]
        IN  /\ groq_client' = g.client
            /\ clientsCreated' = g.created
            /\ nChat' = nChat + 1
            /\ endpoint' = "chat"
            /\ request' = <<req>>
            /\ IF g.raised
               THEN /\ sent' = <<>>
                    /\ reply' = <<>>
                    /\ attempts' = 0
                    /\ chatCalls' = chatCalls
                    /\ response' = ChatError(
                           HTTPExceptionStr(500, "GROQ_API_KEY not configured"))
               ELSE /\ sent' = <<ChatPayload(req)>>
                    /\ reply' = <<r>>
                    /\ attempts' = n
                    /\ chatCalls' = chatCalls + n
                    /\ response' = IF ChatErrorText(r) = <<>>
                                   THEN ChatResponse(r)
                                   ELSE ChatError(ChatErrorText(r))
    /\ UNCHANGED <<config, nHealth, nModels, modelsCalls>>

----------------------------------------------------------------------------
(* GET /health, main.py:60-67 *)

HealthResponse == [status |-> 200, body |-> [status |-> "healthy", timestamp |-> "now"]]

\* A health check that looks at its dependency before it answers.
health_check_dependency ==
    /\ nHealth + nChat + nModels < MaxRequests
    /\ nHealth' = nHealth + 1
    /\ endpoint' = "health"
    /\ request' = <<>>
    /\ sent' = <<>>
    /\ reply' = <<>>
    /\ attempts' = 0
    /\ response' = IF GROQ_API_KEY = ""
                   THEN [status |-> 503, body |-> [status |-> "unhealthy", timestamp |-> "now"]]
                   ELSE HealthResponse
    /\ UNCHANGED <<config, groq_client, clientsCreated, nChat, nModels,
                   chatCalls, modelsCalls>>

health_check ==
    /\ nHealth + nChat + nModels < MaxRequests
    /\ nHealth' = nHealth + 1
    /\ endpoint' = "health"
    /\ request' = <<>>
    /\ sent' = <<>>
    /\ reply' = <<>>
    /\ attempts' = 0
    /\ response' = HealthResponse
    /\ UNCHANGED <<config, groq_client, clientsCreated, nChat, nModels,
                   chatCalls, modelsCalls>>

----------------------------------------------------------------------------
(* GET /models, main.py:113-164 *)

\* Model descriptors as the provider sends them: a JSON object whose keys may
\* go beyond, or fall short of, the five the service re-exposes.
Descriptors ==
    {[id |-> "m1", owned_by |-> "org", active |-> "true", context_window |-> "8192",
      max_completion_tokens |-> "1024", created |-> "1700000000"],
     [id |-> "m2", owned_by |-> "org", active |-> "false", context_window |-> "4096",
      max_completion_tokens |-> "512", object |-> "model"],
     [id |-> "m3", object |-> "model"]}

RECURSIVE SeqsUpTo(_, _)
SeqsUpTo(S, n) ==
    IF n = 0 THEN {<<>>}
    ELSE LET shorter == SeqsUpTo(S, n - 1)
         IN  shorter \cup {Append(q, d) : q \in shorter, d \in S}

\* The JSON objects a 2xx listing reply can hold: with a "data" list of 0 to
\* MaxModels descriptors, or without the "data" key.
ModelsObjects ==
    {[object |-> "list", data |-> q] : q \in SeqsUpTo(Descriptors, MaxModels)}
    \cup {[object |-> "list"]}

\* What requests.get(url, headers=headers, timeout=10) followed by
\* raise_for_status() and json() can come back with (main.py:128-131):
\* no connection, no answer within the timeout, a 4xx or 5xx status, a 2xx
\* status with a body that is not JSON, with JSON that is no object (an
\* array), or with a JSON object.
ModelsFailureKinds ==
    {"conn_error", "timeout", "status_4xx", "status_5xx", "bad_json", "json_array"}
ModelsReplies ==
    [kind : ModelsFailureKinds, json : {<<>>}]
    \cup {[kind |-> "json_object", json |-> <<j>>] : j \in ModelsObjects}

\* The exception the try block raises on reply r (main.py:128-131, 135):
\* requests.get raises ConnectionError or Timeout, raise_for_status raises
\* HTTPError, Response.json raises requests.exceptions.JSONDecodeError, and
\* the four are subclasses of RequestException; models_data.get on a list
\* raises AttributeError, which is not.
ModelsException(r) ==
    CASE r.kind = "conn_error" ->
             [request_exception |-> TRUE, text |-> <<"Connection refused">>]
      [] r.kind = "timeout" ->
             [request_exception |-> TRUE, text |-> <<"Read timed out.">>]
      [] r.kind = "status_4xx" ->
             [request_exception |-> TRUE, text |-> <<"401 Client Error">>]
      [] r.kind = "status_5xx" ->
             [request_exception |-> TRUE, text |-> <<"503 Server Error">>]
      [] r.kind = "bad_json" ->
             [request_exception |-> TRUE, text |-> <<"Expecting value: line 1 column 1 (char 0)">>]
      [] r.kind = "json_array" ->
             [request_exception |-> FALSE, text |-> <<"'list' object has no attribute 'get'">>]
      [] OTHER -> [request_exception |-> FALSE, text |-> <<>>]

\* The two except clauses, main.py:159-164.
ModelsError(e) ==
    IF e.request_exception
    THEN HTTPException(503, <<"Unable to fetch models from Groq API: ">> \o e.text)
    ELSE HTTPException(500, <<"Failed to retrieve models: ">> \o e.text)

\* model_info, main.py:136-142.
ModelInfo(model) ==
    [id |-> DictGet(model, "id"),
     owned_by |-> DictGet(model, "owned_by"),
     active |-> DictGet(model, "active"),
     context_window |-> DictGet(model, "context_window"),
     max_completion_tokens |-> DictGet(model, "max_completion_tokens")]

\* AvailableModels keeping the active models only.
AvailableModelsActiveOnly(models_data) ==
    LET data == IF "data" \in DOMAIN models_data THEN models_data.data ELSE <<>>
        IsActive(m) == DictGet(m, "active") = "true"
        kept == SelectSeq(data, IsActive)
    IN  [i \in 1..Len(kept) |-> ModelInfo(kept[i])]

\* The loop of main.py:134-143 over models_data.get("data", []).
AvailableModels(models_data) ==
    LET data == IF "data" \in DOMAIN models_data THEN models_data.data ELSE <<>>
    IN  [i \in 1..Len(data) |-> ModelInfo(data[i])]

\* result, main.py:146-151.
ModelsResult(models_data) ==
    LET available_models == AvailableModels(models_data)
    IN  [status |-> 200,
         body |-> [object |-> DictGet(models_data, "object"),
                   data |-> available_models,
                   current_model |-> GROQ_MODEL,
                   total_models |-> Len(available_models)]]

\* The headers of the listing call, main.py:123-126: built from the key
\* whatever it is, the empty string included.
ModelsHeaders ==
    [Authorization |-> <<"Bearer ", GROQ_API_KEY>>, ContentType |-> "application/json"]

get_available_models ==
    /\ nHealth + nChat + nModels < MaxRequests
    /\ \E r \in ModelsReplies :
        /\ nModels' = nModels + 1
        /\ endpoint' = "models"
        /\ request' = <<>>
        /\ sent' = <<ModelsHeaders>>
        /\ reply' = <<r>>
        /\ attempts' = 1
        /\ modelsCalls' = modelsCalls + 1
        /\ response' = IF ModelsException(r).text = <<>>
                       THEN ModelsResult(r.json[1])
                       ELSE ModelsError(ModelsException(r))
    /\ UNCHANGED <<config, groq_client, clientsCreated, nHealth, nChat, chatCalls>>

----------------------------------------------------------------------------
(* The service *)

Init ==
    /\ GROQ_API_KEY \in Keys
    /\ \E d \in Defaults : MAX_TOKENS = d.MAX_TOKENS /\ TEMPERATURE = d.TEMPERATURE
    /\ groq_client = 0
    /\ clientsCreated = 0
    /\ nHealth = 0
    /\ nChat = 0
    /\ nModels = 0
    /\ chatCalls = 0
    /\ modelsCalls = 0
    /\ endpoint = "none"
    /\ request = <<>>
    /\ sent = <<>>
    /\ reply = <<>>
    /\ attempts = 0
    /\ response = [status |-> 0, body |-> [detail |-> <<>>]]

Next ==
    \/ health_check
    \/ chat_completion
    \/ get_available_models

Spec == Init /\ [][Next]_vars

TypeOK ==
    /\ GROQ_API_KEY \in Keys
    /\ groq_client \in 0..MaxRequests
    /\ endpoint \in {"none", "health", "chat", "models"}
    /\ response.status \in {0, 200, 500, 503}
    /\ Len(sent) <= 1 /\ Len(reply) <= 1 /\ Len(request) <= 1

----------------------------------------------------------------------------
(* Properties *)

\* The upstream call of the most recent request came back complete: a 2xx
\* reply with a choice, a content and a usage.
UpstreamSucceeded ==
    /\ reply # <<>>
    /\ reply[1].kind = "2xx"
    /\ reply[1].has_choice
    /\ reply[1].content # None
    /\ reply[1].usage # <<>>

\* The descriptors the upstream listed for the most recent request.
UpstreamData ==
    IF "data" \in DOMAIN reply[1].json[1] THEN reply[1].json[1].data ELSE <<>>

\* C1: with GROQ_API_KEY empty, every POST /chat ends with status 500 and
\* sends nothing upstream: the count of HTTP requests to the completion
\* endpoint stays at zero and a chat request leaves every outbound count as
\* it found it, whatever requests came before.
C1_UnsetKeyChatFailsWithoutCall ==
    /\ [](GROQ_API_KEY = "" => chatCalls = 0)
    /\ [][(GROQ_API_KEY = "" /\ nChat' # nChat) =>
              /\ response'.status = 500
              /\ attempts' = 0
              /\ sent' = <<>>
              /\ chatCalls' = chatCalls
              /\ modelsCalls' = modelsCalls]_vars

C1_Witness ==
    /\ GROQ_API_KEY = ""
    /\ endpoint = "chat"
    /\ nChat >= 2
    /\ nModels >= 1
    /\ response.status = 500

\* C2: GET /models answers 503 when the listing call fails at the transport
\* level (no connection, timeout, non-2xx status) and 500 when a 2xx reply
\* holds a body that is not JSON.
C2_ModelsStatusByFailureKind ==
    endpoint = "models" =>
        /\ reply[1].kind \in {"conn_error", "timeout", "status_4xx", "status_5xx"}
               => response.status = 503
        /\ reply[1].kind = "bad_json" => response.status = 500

\* C3: every GET /health answers 200 with status "healthy", sends nothing
\* upstream and leaves the client handle as it was, whatever the key, the
\* handle and the upstream are.
C3_HealthAlwaysHealthy ==
    [][nHealth' # nHealth =>
          /\ response'.status = 200
          /\ response'.body.status = "healthy"
          /\ attempts' = 0
          /\ chatCalls' = chatCalls
          /\ modelsCalls' = modelsCalls
          /\ groq_client' = groq_client
          /\ clientsCreated' = clientsCreated]_vars

C3_Witness ==
    /\ endpoint = "health"
    /\ response.status = 200
    /\ GROQ_API_KEY = ""
    /\ groq_client = 0
    /\ nChat >= 1
    /\ nModels >= 1
    /\ reply = <<>>

\* C4: a POST /chat that omits max_tokens sends upstream the configured
\* MAX_TOKENS, and one that omits temperature sends the configured
\* TEMPERATURE.
C4_OmittedFieldsGetConfiguredDefaults ==
    (endpoint = "chat" /\ sent # <<>>) =>
        /\ request[1].max_tokens = <<>> => sent[1].max_tokens = MAX_TOKENS
        /\ request[1].temperature = <<>> => sent[1].temperature = TEMPERATURE

C4_Witness ==
    /\ endpoint = "chat"
    /\ sent # <<>>
    /\ request[1].max_tokens = <<>>
    /\ request[1].temperature = <<>>
    /\ sent[1].max_tokens = 512
    /\ sent[1].temperature = 2

\* C5: in every 200 answer of GET /models, total_models is the length of
\* data, and data holds one entry per descriptor the upstream listed, in the
\* upstream's order.
C5_TotalModelsCountsEveryDescriptor ==
    (endpoint = "models" /\ response.status = 200) =>
        /\ response.body.total_models = Len(response.body.data)
        /\ Len(response.body.data) = Len(UpstreamData)
        /\ \A i \in 1..Len(UpstreamData) :
               response.body.data[i].id = UpstreamData[i].id

C5_Witness ==
    /\ endpoint = "models"
    /\ response.status = 200
    /\ response.body.total_models = 2
    /\ DictGet(UpstreamData[1], "active") = "false"
    /\ DictGet(UpstreamData[2], "active") = None
    /\ response.body.data[2].context_window = None

\* C6: every POST /chat ends either with 200 and a ChatResponse holding all
\* five fields, exactly when the upstream call came back complete, or with
\* 500 and a body that holds only a detail embedding the error text.
C6_ChatEnds200Or500 ==
    endpoint = "chat" =>
        \/ /\ response.status = 200
           /\ UpstreamSucceeded
           /\ DOMAIN response.body =
                  {"response", "model", "tokens_used", "response_time", "timestamp"}
           /\ response.body.response = reply[1].content
           /\ response.body.tokens_used = reply[1].usage[1]
           /\ response.body.model = GROQ_MODEL
        \/ /\ response.status = 500
           /\ ~UpstreamSucceeded
           /\ DOMAIN response.body = {"detail"}
           /\ Len(response.body.detail) > 1
           /\ reply = <<>> =>
                  response.body.detail[Len(response.body.detail)]
                      = "GROQ_API_KEY not configured"

C6_Witness ==
    /\ endpoint = "chat"
    /\ response.status = 500
    /\ reply # <<>>
    /\ reply[1].kind = "2xx"
    /\ reply[1].has_choice
    /\ reply[1].content = None

\* C7: with GROQ_API_KEY empty, POST /chat and GET /models both answer 500
\* without sending anything upstream.
C7_UnsetKeyFailsEveryEndpointWithoutCall ==
    (GROQ_API_KEY = "" /\ endpoint \in {"chat", "models"}) =>
        /\ response.status = 500
        /\ attempts = 0
        /\ modelsCalls = 0

\* C8: no request causes more than one HTTP request to the upstream, so the
\* HTTP requests sent never outnumber the chat and models requests received.
C8_NoRetry ==
    /\ attempts <= 1
    /\ chatCalls + modelsCalls <= nChat + nModels

\* C9: the client handle is built at most once; it leaves None only when the
\* key is non-empty, never changes once set, and stays None when the key is
\* empty.
C9_ClientInitialisedAtMostOnce ==
    [][/\ groq_client # 0 => groq_client' = groq_client
       /\ (groq_client = 0 /\ groq_client' # 0) => GROQ_API_KEY # ""
       /\ GROQ_API_KEY = "" => groq_client' = 0
       /\ clientsCreated' <= 1]_vars

C9_Witness ==
    /\ nChat = MaxRequests
    /\ groq_client = 1
    /\ clientsCreated = 1

\* C10: a POST /chat that supplies max_tokens or temperature sends upstream
\* exactly the supplied value, 0 included.
C10_SuppliedFieldsSentUnchanged ==
    (endpoint = "chat" /\ sent # <<>>) =>
        /\ request[1].max_tokens # <<>> => sent[1].max_tokens = request[1].max_tokens[1]
        /\ request[1].temperature # <<>> => sent[1].temperature = request[1].temperature[1]

====
